---- MODULE Spec2Model ----
(***************************************************************************)
(* A model of backend/ml/predict.py: the command-line entry point main,    *)
(* the HeartFailurePredictor object with its lazily trained model, and the *)
(* median split that labels the synthetic training set.                    *)
(*                                                                         *)
(* Numbers.  A probability is the integer k of k/PGrid, k \in 0..PGrid.    *)
(* What main prints is in fixed point with denominator Unit = 20 * PGrid,  *)
(* the smallest denominator in which 0.85 + (p - 0.5) * 0.2 is exact for   *)
(* every p = k/PGrid: prediction 20*k, confidence between 14*PGrid (0.70)  *)
(* and 19*PGrid (0.95).                                                    *)
(*                                                                         *)
(* Libraries.  json, numpy and scikit-learn are not part of the            *)
(* repository.  They are modelled by what they do with the values the      *)
(* program hands them: which exception they raise, and, for the seeded     *)
(* random forest, one fixed but unknown probability per (training seed,    *)
(* feature vector), drawn when first needed and kept in `oracle`.          *)
(***************************************************************************)
EXTENDS Integers, Sequences, FiniteSets

\* ------------------------------------------------------------------ bounds

\* Probabilities are the multiples of 1/PGrid.
PGrid == 2
\* How many different all-numeric feature vectors callers send.
NumVectors == 2
\* Objects on the command line lack at most this many of the 11 keys.
MaxMissing == 2
\* Values the operating system's entropy pool can hand one process.
MaxEntropy == 2
\* predict calls made on one predictor by the direct-use harness.
MaxCalls == 2
\* The median split is taken over 2 * HalfN scores (1000 in the program).
HalfN == 2
\* Risk scores are 0..MaxScore, neighbouring integers being neighbouring floats.
MaxScore == 3

\* ------------------------------------------------------- program constants

\* np.random.seed(42) and random_state=42
SEED == 42

\* ------------------------------------------------------------- JSON values

\* The 11 keys of the wire format (what callers know to send).
Keys ==
    {"age", "sex", "chestPainType", "restingBP", "cholesterol", "fastingBS",
     "restingECG", "maxHR", "exerciseAngina", "oldpeak", "stSlope"}

Vectors == 1..NumVectors

Entropy == 1..MaxEntropy

\* What a value under a key can be: an ordinary finite number; a number so
\* large that it is no finite float32 after scaling (1e300); a string that is
\* no number ("abc"); a nested array.
ValueKinds == {"num", "huge", "str", "list"}

KeySets == {Keys \ M : M \in {S \in SUBSET Keys : Cardinality(S) <= MaxMissing}}

\* A parsed JSON document.  type: what json.loads returned.  keys: for an
\* object its keys, for an array the field names among its elements, for a
\* string the field names that are substrings of it.  An object holds numbers
\* (the feature vector vec) under all its keys, except that the key `bad`, if
\* any, holds a value of kind badkind.
Doc(t, ks, v, b, bk) == [type |-> t, keys |-> ks, vec |-> v, bad |-> b, badkind |-> bk]

Scalars == {Doc(t, {}, 1, "none", "num") : t \in {"number", "null"}}

Containers == {Doc(t, ks, 1, "none", "num") : t \in {"string", "array"}, ks \in {{}, Keys}}

PartialObjects == {Doc("object", ks, 1, "none", "num") : ks \in KeySets \ {Keys}}

NumericObjects == {Doc("object", Keys, v, "none", "num") : v \in Vectors}

IllTypedObjects == {Doc("object", Keys, 1, b, bk) : b \in Keys, bk \in ValueKinds \ {"num"}}

Objects == PartialObjects \cup NumericObjects \cup IllTypedObjects

Docs == Scalars \cup Containers \cup Objects

\* The kind of the value an object holds under key f.
ValueKind(doc, f) == IF f = doc.bad THEN doc.badkind ELSE "num"

\* A command-line argument: well-formed JSON text of a document, text that is
\* not JSON, or text nested deeper than the interpreter's recursion limit
\* ("[[[[...", 100000 deep).
Arg(s, d) == [syntax |-> s, doc |-> d]

NullDoc == Doc("null", {}, 1, "none", "num")

Arguments ==
    {Arg("valid", d) : d \in Docs} \cup {Arg("malformed", NullDoc), Arg("deep", NullDoc)}

\* sys.argv: the script name, then the arguments.
CommandLines == {<<"predict.py">>} \cup {<<"predict.py", a>> : a \in Arguments}

Min(S) == CHOOSE x \in S : \A z \in S : x <= z

\* -------------------------------------------------------------------- state

VARIABLES
    argv,        \* sys.argv of the running process, <<>> between processes
    pc,          \* main: "idle", "predict" (inside line 146), "exited", "crashed";
                 \* "harness" when the predictor is used directly
    stdout,      \* the objects the running process has printed, in order
    did,         \* the steps the running process has taken
    predictor,   \* the HeartFailurePredictor object of the running process
    ppc,         \* predict: "idle", the line it is at, "done"
    features,    \* predict's argument
    X,           \* train_simple_model's local data: the seed it was drawn with
    ret,         \* what predict returned or raised
    calls,       \* predict calls made by the harness
    oracle,      \* the forests' probabilities that have been computed so far
    prev,        \* an earlier process, remembered: its argv and its output
    risk_score,  \* the scores the median split is applied to
    y            \* their labels, <<>> before the split

vars ==
    <<argv, pc, stdout, did, predictor, ppc, features, X, ret, calls, oracle, prev,
      risk_score, y>>

\* ---------------------------------------------------------------- printing

Failure(prefix, detail) == [success |-> FALSE, error |-> <<prefix, detail>>]

NoInput == Failure("No input data provided", "")

InvalidJSON == Failure("Invalid JSON input", "")

MissingField(f) == Failure("Missing required field: ", f)

PredictionFailed(exc) == Failure("Prediction failed: ", exc)

\* ---------------------------------------------------------------- the parser

\* json.loads(sys.argv[1]): the document, or the exception raised.  Text that
\* is not JSON raises JSONDecodeError; text nested beyond the recursion limit
\* raises RecursionError from the scanner, before its syntax is decided.
json_loads(a) ==
    CASE a.syntax = "valid" -> [exc |-> "", value |-> a.doc]
      [] a.syntax = "malformed" -> [exc |-> "JSONDecodeError", value |-> NullDoc]
      [] a.syntax = "deep" -> [exc |-> "RecursionError", value |-> NullDoc]

\* --------------------------------------------------------------- validation

\* The predictor's own feature names (lines 20-24), which are not the keys of
\* the wire format.
required_fields_snake ==
    <<"age", "sex", "chest_pain_type", "resting_bp", "cholesterol", "fasting_bs",
      "resting_ecg", "max_hr", "exercise_angina", "oldpeak", "st_slope">>

\* Lines 130-134.
required_fields ==
    <<"age", "sex", "chestPainType", "restingBP", "cholesterol", "fastingBS",
      "restingECG", "maxHR", "exerciseAngina", "oldpeak", "stSlope">>

\* `field not in input_data` raises TypeError on a number, a boolean or null.
InRaises(doc) == doc.type \in {"number", "null"}

\* `field in input_data`: a key of an object, an element of an array, a
\* substring of a string.
Contains(doc, f) == f \in doc.keys

\* The loop without its return: the last absent field.
FirstMissingLast(doc) ==
    LET absent == {i \in 1..Len(required_fields) : ~Contains(doc, required_fields[i])}
    IN  IF absent = {} THEN "" ELSE required_fields[CHOOSE i \in absent : \A j \in absent : j <= i]

\* The for loop of lines 136-142: the field it returns on, "" when it runs out.
FirstMissing(doc) ==
    LET absent == {i \in 1..Len(required_fields) : ~Contains(doc, required_fields[i])}
    IN  IF absent = {} THEN "" ELSE required_fields[Min(absent)]

\* --------------------------------------------------------------- exceptions

Exceptions ==
    {"JSONDecodeError", "RecursionError", "IndexError", "TypeError", "KeyError",
     "ValueError", "NotFittedError"}

\* A handler for ValueError alone.
CaughtValueErrors(exc) == exc \in {"JSONDecodeError", "ValueError"}

\* main's handlers: except json.JSONDecodeError, then except Exception.
Caught(exc) == exc \in Exceptions

\* What the handlers print for a caught exception.
Handler(exc) == IF exc = "JSONDecodeError" THEN InvalidJSON ELSE PredictionFailed(exc)

\* --------------------------------------------------------------- confidence

\* The denominator of what main prints.
Unit == 20 * PGrid

Max2(a, b) == IF a >= b THEN a ELSE b

Min2(a, b) == IF a <= b THEN a ELSE b

\* The clamp with min and max exchanged.
ConfidenceSwappedClamp(prediction) ==
    LET confidence == (85 * Unit) \div 100 + ((prediction - (5 * Unit) \div 10) * 2) \div 10
    IN  Min2((70 * Unit) \div 100, Max2((95 * Unit) \div 100, confidence))

\* Lines 149-150, prediction and confidence over Unit.
Confidence(prediction) ==
    LET confidence == (85 * Unit) \div 100 + ((prediction - (5 * Unit) \div 10) * 2) \div 10
    IN  Max2((70 * Unit) \div 100, Min2((95 * Unit) \div 100, confidence))

\* Lines 153-158; predict's probability k/PGrid is 20 * k over Unit.
Success(k) ==
    [success |-> TRUE, prediction |-> 20 * k, confidence |-> Confidence(20 * k),
     method |-> "random_forest"]

\* ------------------------------------------------------------ the predictor

\* No object: main has not reached line 145.
NoPredictor ==
    [exists |-> FALSE, model |-> [st |-> "None", data |-> 0],
     scaler |-> [fitted |-> FALSE, data |-> 0], trained |-> 0]

\* __init__: no model, an unfitted StandardScaler.  trained counts the runs of
\* train_simple_model on this object.
HeartFailurePredictor_init ==
    [exists |-> TRUE, model |-> [st |-> "None", data |-> 0],
     scaler |-> [fitted |-> FALSE, data |-> 0], trained |-> 0]

NoRet == [kind |-> "none", v |-> 0, exc |-> ""]

Returned(k) == [kind |-> "value", v |-> k, exc |-> ""]

Raised(e) == [kind |-> "raise", v |-> 0, exc |-> e]

\* Training on every call.
NeedsTrainingAlways(p) == TRUE

\* Line 89: if self.model is None
NeedsTraining(p) == p.model.st = "None"

\* An unseeded generator: its state is the entropy the process was handed.
np_random_seed_entropy(entropy) == entropy

\* Line 29: the generator's state is set from the constant, never from the
\* entropy the process was handed.
np_random_seed(entropy) == SEED

\* Lines 94-104: the keys predict looks up, in order.
predict_keys ==
    <<"age", "sex", "chestPainType", "restingBP", "cholesterol", "fastingBS",
      "restingECG", "maxHR", "exerciseAngina", "oldpeak", "stSlope">>

HasKind(doc, kind) == \E i \in 1..Len(predict_keys) : ValueKind(doc, predict_keys[i]) = kind

\* Lines 93-105: subscripting a string, an array or a scalar with a string
\* raises TypeError, a mapping without the key raises KeyError, and np.array
\* raises ValueError on a row that holds a nested array (an inhomogeneous
\* shape).  "" when the row is built.
BuildRaises(doc) ==
    IF doc.type # "object" THEN "TypeError"
    ELSE IF \E i \in 1..Len(predict_keys) : predict_keys[i] \notin doc.keys THEN "KeyError"
    ELSE IF HasKind(doc, "list") THEN "ValueError"
    ELSE ""

\* Line 108: StandardScaler.transform raises NotFittedError before fit, and
\* ValueError on a value it cannot convert to a float.
ScaleRaises(p, doc) ==
    IF ~p.scaler.fitted THEN "NotFittedError"
    ELSE IF HasKind(doc, "str") THEN "ValueError"
    ELSE ""

\* Line 111: predict_proba raises NotFittedError before fit, and ValueError on
\* a scaled value that is no finite float32.
ProbaRaises(p, doc) ==
    IF p.model.st # "fitted" THEN "NotFittedError"
    ELSE IF HasKind(doc, "huge") THEN "ValueError"
    ELSE ""

\* The forest fitted on the data of seed `data`, asked about `vec` scaled with
\* the scaler fitted on the data of seed `scale`.
Query(p, doc) == [data |-> p.model.data, scale |-> p.scaler.data, vec |-> doc.vec]

Known(q) == {r \in oracle : r.q = q}

PredictCheck ==
    /\ ppc = "l89"
    /\ ppc' = IF NeedsTraining(predictor) THEN "l29" ELSE "l93"
    /\ UNCHANGED <<argv, pc, stdout, did, predictor, features, X, ret, calls, oracle, prev,
                   risk_score, y>>

\* Lines 29-79: seed the generator, draw the data and its labels, and put a
\* new, unfitted classifier in self.model.
TrainGenerate ==
    /\ ppc = "l29"
    /\ \E entropy \in Entropy : X' = np_random_seed(entropy)
    /\ predictor' = [predictor EXCEPT !.model = [st |-> "new", data |-> 0],
                                      !.trained = @ + 1]
    /\ did' = did \cup {"train"}
    /\ ppc' = "l82"
    /\ UNCHANGED <<argv, pc, stdout, features, ret, calls, oracle, prev, risk_score, y>>

\* Line 82: self.scaler.fit_transform(X)
TrainScale ==
    /\ ppc = "l82"
    /\ predictor' = [predictor EXCEPT !.scaler = [fitted |-> TRUE, data |-> X]]
    /\ ppc' = "l83"
    /\ UNCHANGED <<argv, pc, stdout, did, features, X, ret, calls, oracle, prev, risk_score, y>>

\* Lines 83-85: self.model.fit(X_scaled, y), and back in predict.
TrainFit ==
    /\ ppc = "l83"
    /\ predictor' = [predictor EXCEPT !.model = [st |-> "fitted", data |-> X]]
    /\ X' = 0
    /\ ppc' = "l93"
    /\ UNCHANGED <<argv, pc, stdout, did, features, ret, calls, oracle, prev, risk_score, y>>

PredictBuild ==
    /\ ppc = "l93"
    /\ IF BuildRaises(features) # ""
       THEN ret' = Raised(BuildRaises(features)) /\ ppc' = "done"
       ELSE ret' = ret /\ ppc' = "l108"
    /\ UNCHANGED <<argv, pc, stdout, did, predictor, features, X, calls, oracle, prev,
                   risk_score, y>>

PredictScale ==
    /\ ppc = "l108"
    /\ did' = did \cup {"scale"}
    /\ IF ScaleRaises(predictor, features) # ""
       THEN ret' = Raised(ScaleRaises(predictor, features)) /\ ppc' = "done"
       ELSE ret' = ret /\ ppc' = "l111"
    /\ UNCHANGED <<argv, pc, stdout, predictor, features, X, calls, oracle, prev, risk_score, y>>

\* Lines 111-113: the probability of class 1.  The fitted forest is a fixed
\* function: a query answered before gets the same answer.
PredictProba ==
    /\ ppc = "l111"
    /\ did' = did \cup {"classify"}
    /\ ppc' = "done"
    /\ IF ProbaRaises(predictor, features) # ""
       THEN ret' = Raised(ProbaRaises(predictor, features)) /\ oracle' = oracle
       ELSE LET q == Query(predictor, features)
            IN  IF Known(q) # {}
                THEN ret' = Returned((CHOOSE r \in Known(q) : TRUE).k) /\ oracle' = oracle
                ELSE \E k \in 0..PGrid :
                        /\ ret' = Returned(k)
                        /\ oracle' = oracle \cup {[q |-> q, k |-> k]}
    /\ UNCHANGED <<argv, pc, stdout, predictor, features, X, calls, prev, risk_score, y>>

Predict ==
    \/ PredictCheck
    \/ TrainGenerate
    \/ TrainScale
    \/ TrainFit
    \/ PredictBuild
    \/ PredictScale
    \/ PredictProba

\* --------------------------------------------------------------------- main

\* len(sys.argv) < 1
NoArgumentOffByOne(args) == Len(args) < 1

\* Line 119: len(sys.argv) < 2
NoArgument(args) == Len(args) < 2

\* Where main is after an exception reached its try block.
Except(exc, out, steps) ==
    IF Caught(exc)
    THEN [next |-> "exited", out |-> Append(out, Handler(exc)), did |-> steps, input |-> NullDoc]
    ELSE [next |-> "crashed", out |-> out, did |-> steps, input |-> NullDoc]

\* Lines 117-145: main up to the call of predict: where it is then, what it
\* has printed, the steps it took and the document it parsed.
main_head(args) ==
    IF NoArgument(args)
    THEN [next |-> "exited", out |-> <<NoInput>>, did |-> {}, input |-> NullDoc]
    ELSE IF Len(args) < 2 THEN Except("IndexError", <<>>, {})
    ELSE LET parsed == json_loads(args[2])
             input_data == parsed.value
         IN  IF parsed.exc # "" THEN Except(parsed.exc, <<>>, {"parse"})
             ELSE IF InRaises(input_data) THEN Except("TypeError", <<>>, {"parse", "validate"})
             ELSE IF FirstMissing(input_data) # ""
             THEN [next |-> "exited", out |-> <<MissingField(FirstMissing(input_data))>>,
                   did |-> {"parse", "validate"}, input |-> input_data]
             ELSE [next |-> "predict", out |-> <<>>,
                   did |-> {"parse", "validate", "construct"}, input |-> input_data]

\* A process is started with command line args and runs main to its return
\* or to its call of predict (line 146).
Start(args) ==
    /\ pc = "idle"
    /\ argv' = args
    /\ LET h == main_head(args)
       IN  /\ pc' = h.next
           /\ stdout' = h.out
           /\ did' = h.did
           /\ features' = h.input
           /\ predictor' = IF h.next = "predict" THEN HeartFailurePredictor_init ELSE NoPredictor
           /\ ppc' = IF h.next = "predict" THEN "l89" ELSE "idle"
    /\ UNCHANGED <<X, ret, calls, oracle, prev, risk_score, y>>

\* Lines 146-171: predict has returned or raised; main prints the result, or
\* its handlers print the failure.
Finish ==
    /\ pc = "predict"
    /\ ppc = "done"
    /\ LET t == IF ret.kind = "value"
                THEN [next |-> "exited", out |-> Append(stdout, Success(ret.v)), did |-> did,
                      input |-> features]
                ELSE Except(ret.exc, stdout, did)
       IN  pc' = t.next /\ stdout' = t.out
    /\ ppc' = "idle"
    /\ UNCHANGED <<argv, did, predictor, features, X, ret, calls, oracle, prev, risk_score, y>>

NoRun == [some |-> FALSE, argv |-> <<>>, stdout |-> <<>>]

\* The process is gone, and with it its objects.  The observer may remember
\* what it was given and what it printed.
Exit(keep) ==
    /\ pc \in {"exited", "crashed"}
    /\ prev' = IF keep THEN [some |-> TRUE, argv |-> argv, stdout |-> stdout] ELSE prev
    /\ pc' = "idle"
    /\ argv' = <<>>
    /\ stdout' = <<>>
    /\ did' = {}
    /\ predictor' = NoPredictor
    /\ features' = NullDoc
    /\ ret' = NoRet
    /\ UNCHANGED <<ppc, X, calls, oracle, risk_score, y>>

Init ==
    /\ argv = <<>>
    /\ pc = "idle"
    /\ stdout = <<>>
    /\ did = {}
    /\ predictor = NoPredictor
    /\ ppc = "idle"
    /\ features = NullDoc
    /\ X = 0
    /\ ret = NoRet
    /\ calls = 0
    /\ oracle = {}
    /\ prev = NoRun
    /\ risk_score = <<>>
    /\ y = <<>>

\* One process after another, each judged on its own.
Next ==
    \/ \E args \in CommandLines : Start(args)
    \/ Predict
    \/ Finish
    \/ Exit(FALSE)

Spec == Init /\ [][Next]_vars

\* ----------------------------------------------------------- pairs of runs

\* The documents of the runs that are compared with one another: all but the
\* objects that lack some keys, of which the empty object stands in.
RunDocs ==
    Scalars \cup Containers \cup NumericObjects \cup IllTypedObjects
        \cup {Doc("object", {}, 1, "none", "num")}

RunCommandLines ==
    {<<"predict.py">>}
        \cup {<<"predict.py", Arg("valid", d)>> : d \in RunDocs}
        \cup {<<"predict.py", Arg("malformed", NullDoc)>>, <<"predict.py", Arg("deep", NullDoc)>>}

NextRuns ==
    \/ \E args \in RunCommandLines : Start(args)
    \/ Predict
    \/ Finish
    \/ \E keep \in BOOLEAN : Exit(keep)

SpecRuns == Init /\ [][NextRuns]_vars

\* ------------------------------------------- the predictor, used directly

\* predict(features) is called on the one predictor.
Call(doc) ==
    /\ pc = "harness"
    /\ ppc = "idle"
    /\ calls < MaxCalls
    /\ calls' = calls + 1
    /\ features' = doc
    /\ ret' = NoRet
    /\ ppc' = "l89"
    /\ UNCHANGED <<argv, pc, stdout, did, predictor, X, oracle, prev, risk_score, y>>

\* The caller has predict's result or exception.
Return ==
    /\ pc = "harness"
    /\ ppc = "done"
    /\ ppc' = "idle"
    /\ UNCHANGED <<argv, pc, stdout, did, predictor, features, X, ret, calls, oracle, prev,
                   risk_score, y>>

InitPredictor ==
    /\ argv = <<>>
    /\ pc = "harness"
    /\ stdout = <<>>
    /\ did = {}
    /\ predictor = HeartFailurePredictor_init
    /\ ppc = "idle"
    /\ features = NullDoc
    /\ X = 0
    /\ ret = NoRet
    /\ calls = 0
    /\ oracle = {}
    /\ prev = NoRun
    /\ risk_score = <<>>
    /\ y = <<>>

NextPredictor ==
    \/ \E doc \in Docs : Call(doc)
    \/ Predict
    \/ Return

SpecPredictor == InitPredictor /\ [][NextPredictor]_vars

\* ---------------------------------------------------------- the median split

\* The k-th smallest of the scores.
Kth(s, k) ==
    Min({v \in {s[i] : i \in DOMAIN s} : Cardinality({i \in DOMAIN s : s[i] <= v}) >= k})

\* (a + b) / 2 in floating point: the sum of two neighbouring floats is not
\* representable, and rounds to the one with the even mantissa.
Mean2(a, b) ==
    LET t == a + b
    IN  IF t % 2 = 0 THEN t \div 2
        ELSE IF ((t - 1) \div 2) % 2 = 0 THEN (t - 1) \div 2 ELSE (t + 1) \div 2

\* np.median: the middle score, or the mean of the two middle scores.
np_median(s) ==
    IF Len(s) % 2 = 1 THEN Kth(s, (Len(s) + 1) \div 2)
    ELSE Mean2(Kth(s, Len(s) \div 2), Kth(s, Len(s) \div 2 + 1))

\* The split with >= for >.
LabelsAtLeastMedian(s) == [i \in DOMAIN s |-> IF s[i] >= np_median(s) THEN 1 ELSE 0]

\* Line 72: y = (risk_score > np.median(risk_score)).astype(int)
Labels(s) == [i \in DOMAIN s |-> IF s[i] > np_median(s) THEN 1 ELSE 0]

Label ==
    /\ risk_score # <<>>
    /\ y = <<>>
    /\ y' = Labels(risk_score)
    /\ UNCHANGED <<argv, pc, stdout, did, predictor, ppc, features, X, ret, calls, oracle, prev,
                   risk_score>>

\* Any scores: the noise of line 69 is added to a sum the seed decides, and
\* the split is judged for every vector it could be handed.
InitMedian ==
    /\ argv = <<>>
    /\ pc = "idle"
    /\ stdout = <<>>
    /\ did = {}
    /\ predictor = NoPredictor
    /\ ppc = "idle"
    /\ features = NullDoc
    /\ X = 0
    /\ ret = NoRet
    /\ calls = 0
    /\ oracle = {}
    /\ prev = NoRun
    /\ risk_score \in [1..(2 * HalfN) -> 0..MaxScore]
    /\ y = <<>>

NextMedian == Label

SpecMedian == InitMedian /\ [][NextMedian]_vars

\* ------------------------------------------------------------------- claims

\* The run is over and has printed.
Exited == pc = "exited" /\ Len(stdout) >= 1

\* The run was given an argument that json.loads returned a document for.
Parsed == Len(argv) = 2 /\ argv[2].syntax = "valid"

IsSuccessShape(o) ==
    /\ DOMAIN o = {"success", "prediction", "confidence", "method"}
    /\ o.success = TRUE
    /\ o.method = "random_forest"

IsFailureShape(o) == DOMAIN o = {"success", "error"} /\ o.success = FALSE

PredictionSteps == {"construct", "train", "scale", "classify"}

\* C1: every run of main, whatever its command line, ends normally having
\* printed exactly one object, of the success shape or of the failure shape;
\* no exception escapes, nothing is printed before the end, and a run that is
\* inside predict can always go on.
C1_OneObjectPerRun ==
    /\ pc # "crashed"
    /\ pc \in {"idle", "predict"} => stdout = <<>>
    /\ pc = "predict" => ENABLED (Predict \/ Finish)
    /\ pc = "exited" =>
        /\ Len(stdout) = 1
        /\ IsSuccessShape(stdout[1]) \/ IsFailureShape(stdout[1])

\* A run whose argument holds a string under the key maxHR: the exception
\* raised inside predict was caught, and reported as the one object.
C1_Witness ==
    /\ pc = "exited"
    /\ Parsed
    /\ argv[2].doc = Doc("object", Keys, 1, "maxHR", "str")
    /\ stdout = <<PredictionFailed("ValueError")>>

ValidationOrder ==
    <<"age", "sex", "chestPainType", "restingBP", "cholesterol", "fastingBS",
      "restingECG", "maxHR", "exerciseAngina", "oldpeak", "stSlope">>

FirstAbsent(ks) ==
    ValidationOrder[Min({i \in 1..Len(ValidationOrder) : ValidationOrder[i] \notin ks})]

\* C3: a parsed object that lacks some of the 11 keys yields exactly the
\* failure 'Missing required field: <f>', f the first absent key in the
\* validation order; no predictor is constructed and no training or
\* prediction step is taken.
C3_FirstMissingReported ==
    (pc = "exited" /\ Parsed /\ argv[2].doc.type = "object"
        /\ ~(Keys \subseteq argv[2].doc.keys)) =>
        /\ stdout = <<Failure("Missing required field: ", FirstAbsent(argv[2].doc.keys))>>
        /\ predictor = NoPredictor
        /\ did \cap PredictionSteps = {}
        /\ ppc = "idle"

\* An object without sex and maxHR has been answered by naming sex.
C3_Witness ==
    /\ pc = "exited"
    /\ Parsed
    /\ argv[2].doc.type = "object"
    /\ argv[2].doc.keys = Keys \ {"sex", "maxHR"}
    /\ stdout = <<MissingField("sex")>>

\* C4: in a success response prediction is in [0, 1], confidence is in
\* [0.70, 0.95], and confidence is 0.85 + (prediction - 0.5) * 0.2 clamped to
\* that interval (all over Unit; the comparison is made times 100).
C4_Ranges ==
    (Exited /\ stdout[1].success) =>
        LET p == stdout[1].prediction
            c == stdout[1].confidence
            raw == 85 * Unit + 20 * p - 10 * Unit
        IN  /\ 0 <= p /\ p <= Unit
            /\ 70 * Unit <= 100 * c /\ 100 * c <= 95 * Unit
            /\ 100 * c = (IF raw < 70 * Unit THEN 70 * Unit
                          ELSE IF raw > 95 * Unit THEN 95 * Unit ELSE raw)

\* A success response with prediction 0, whose confidence is 0.75.
C4_Witness ==
    /\ Exited
    /\ stdout[1].success
    /\ stdout[1].prediction = 0
    /\ 100 * stdout[1].confidence = 75 * Unit

Abs(n) == IF n < 0 THEN -n ELSE n

\* C5: of two predictions, the one at least as far from 0.5 has at least the
\* confidence of the other.
C5_MonotoneInDistance ==
    (prev.some /\ Len(prev.stdout) = 1 /\ Exited /\ prev.stdout[1].success /\ stdout[1].success) =>
        LET p == prev.stdout[1].prediction
            q == stdout[1].prediction
        IN  Abs(2 * p - Unit) <= Abs(2 * q - Unit)
                => prev.stdout[1].confidence <= stdout[1].confidence

\* C6: two runs with the same command line print the same.
C6_Deterministic ==
    (prev.some /\ pc = "exited" /\ prev.argv = argv) => prev.stdout = stdout

\* Two runs with the same command line, both answered with a prediction.
C6_Witness ==
    /\ prev.some
    /\ Exited
    /\ prev.argv = argv
    /\ stdout[1].success
    /\ prev.stdout = stdout

\* C7: an argument that cannot be parsed yields exactly 'Invalid JSON input',
\* with no validation, training or prediction; an argument that can be
\* parsed never yields that message.
C7_UnparseableInvalidJSON ==
    (pc = "exited" /\ Len(argv) = 2) =>
        IF argv[2].syntax # "valid"
        THEN stdout = <<InvalidJSON>> /\ did \subseteq {"parse"} /\ predictor = NoPredictor
        ELSE stdout # <<InvalidJSON>>

\* C8: without an argument main prints exactly 'No input data provided' and
\* returns before it parses, validates, trains or predicts.
C8_NoArgument ==
    (pc = "exited" /\ Len(argv) < 2) =>
        /\ stdout = <<Failure("No input data provided", "")>>
        /\ did = {}
        /\ predictor = NoPredictor
        /\ ppc = "idle"

\* A run without an argument has ended.
C8_Witness ==
    /\ pc = "exited"
    /\ argv = <<"predict.py">>
    /\ stdout = <<NoInput>>
    /\ did = {}

Ones == Cardinality({i \in DOMAIN y : y[i] = 1})

Zeros == Cardinality({i \in DOMAIN y : y[i] = 0})

LowerMiddle == Kth(risk_score, HalfN)

UpperMiddle == Kth(risk_score, HalfN + 1)

Training == ppc \in {"l29", "l82", "l83"}

Fitted(p) == p.scaler.fitted /\ p.model.st = "fitted"

\* C10: over any sequence of predict calls on one predictor, training runs
\* exactly once, during the first call; whenever predict scales or classifies
\* both the scaler and the model are fitted; and once they are, no step
\* changes the scaler or the model.
C10_TrainedOnce ==
    /\ [](/\ predictor.trained <= 1
          /\ Training => calls = 1
          /\ (calls >= 1 /\ ppc \notin {"l89", "l29"}) => predictor.trained = 1
          /\ ppc \in {"l108", "l111"} => Fitted(predictor)
          /\ (ppc = "done" /\ ret.kind = "value") => Fitted(predictor))
    /\ [][Fitted(predictor) =>
            (predictor'.scaler = predictor.scaler /\ predictor'.model = predictor.model)]_vars

\* The second call classifies with the model the first call trained.
C10_Witness ==
    /\ pc = "harness"
    /\ calls = 2
    /\ ppc = "l111"
    /\ predictor.trained = 1
    /\ Fitted(predictor)

====
